---- MODULE Spec2Model ----
(***************************************************************************)
(* EcoSort-AI: the desktop shell (src/GUI.py, Tkinter) and the web shell   *)
(* (src/app.py, Streamlit) around one pretrained classifier.               *)
(*                                                                         *)
(* Conventions                                                             *)
(*  - Python strings are TLA+ strings.  The parser accepts ASCII only, so  *)
(*    every non-ASCII character is written as Python's unicode_escape of   *)
(*    it (an em dash is the six characters \u2014):                       *)
(*    s.encode("unicode_escape") maps a source string to the one here.     *)
(*  - A Python float of a fact table is the text str() gives for it        *)
(*    (8.0 is "8.0"), which is what an f-string prints.                    *)
(*  - A probability is an integer number of 1/ProbDenom units, so the      *)
(*    uniform vector over the twelve classes is exact.  A confidence       *)
(*    (probability * 100) is an integer number of 1/ProbDenom percent.     *)
(*  - Python's None is <<>> for a tuple-valued field and the token None    *)
(*    for a path; a dict is a function and dict.get is Get.                *)
(***************************************************************************)
EXTENDS Integers, Sequences, FiniteSets, TLC

\* len(CLASS_LABELS): the length of the classifier's output vector.
NumClasses == 12

\* Denominator of the probability unit (1/12: the uniform vector is all ones).
ProbDenom == NumClasses

\* Python indices of a probability vector.
ClassIdx == 0 .. (NumClasses - 1)

(***************************************************************************)
(* Knowledge base: the literal tables of the two shells.                   *)
(***************************************************************************)
\* GUI.py: CLASS_LABELS, in index order (index 0 first).
CLASS_LABELS_GUI ==
    << "battery",
       "biological",
       "brown-glass",
       "cardboard",
       "clothes",
       "green-glass",
       "metal",
       "paper",
       "plastic",
       "shoes",
       " Other Trash",
       "white-glass" >>

\* GUI.py: WASTE_INFO, one record of facts per key.
WASTE_INFO_GUI ==
    ("battery" :>
        [description |-> "Batteries contain heavy metals (lead, cadmium, mercury) and are harmful.",
         recycle |-> "Return to e-waste / battery collection centers. Do not throw in household Other Trash.",
         hazard |-> "High \\u2014 toxic if leaked into soil/water.",
         time |-> "100+ years",
         carbon_saving_kg_per_kg |-> "8.0",
         landfill_reduction_m3_per_ton |-> "0.5",
         tip |-> "Tape terminals and store for safe transport to recycling center."])
    @@ ("biological" :>
        [description |-> "Organic waste (food scraps, garden waste) that is biodegradable.",
         recycle |-> "Compost or municipal organic waste collections / anaerobic digesters.",
         hazard |-> "Low if composted correctly; avoid mixing with plastics.",
         time |-> "2\\u201312 weeks (compostable)",
         carbon_saving_kg_per_kg |-> "0.2",
         landfill_reduction_m3_per_ton |-> "0.8",
         tip |-> "Keep moist and balanced (greens/browns) for efficient composting."])
    @@ ("brown-glass" :>
        [description |-> "Brown (amber) glass bottles and jars used for beverages.",
         recycle |-> "Rinse and drop at glass recycling points; separate colors if your local scheme requires it.",
         hazard |-> "Low (physical hazard if broken).",
         time |-> "Non-biodegradable (effectively infinite)",
         carbon_saving_kg_per_kg |-> "0.5",
         landfill_reduction_m3_per_ton |-> "0.6",
         tip |-> "Keep clean; remove lids if required by local rules."])
    @@ ("cardboard" :>
        [description |-> "Boxes, cartons and corrugated cardboard.",
         recycle |-> "Flatten, remove contaminants, and recycle with paper/cardboard streams.",
         hazard |-> "Low.",
         time |-> "2 months (varies)",
         carbon_saving_kg_per_kg |-> "1.2",
         landfill_reduction_m3_per_ton |-> "3.0",
         tip |-> "Break down boxes to save space and speed recycling."])
    @@ ("clothes" :>
        [description |-> "Textiles and garments (natural and synthetic).",
         recycle |-> "Donate wearable items; textile-recycling programs convert fibers to new products.",
         hazard |-> "Moderate due to dyes and mixed materials.",
         time |-> "Months to years",
         carbon_saving_kg_per_kg |-> "2.0",
         landfill_reduction_m3_per_ton |-> "2.5",
         tip |-> "Donate or upcycle instead of discarding."])
    @@ ("green-glass" :>
        [description |-> "Green glass bottles/jars.",
         recycle |-> "Recycle at glass collection; can be infinitely recycled.",
         hazard |-> "Low (if broken physical hazard).",
         time |-> "Non-biodegradable",
         carbon_saving_kg_per_kg |-> "0.5",
         landfill_reduction_m3_per_ton |-> "0.6",
         tip |-> "Rinse and separate if required."])
    @@ ("metal" :>
        [description |-> "Cans, tins and scrap metals (aluminium, steel).",
         recycle |-> "Very recyclable \\u2014 take to scrap dealers or metal recycling bins.",
         hazard |-> "Low, but sharp edges can cause injury.",
         time |-> "50\\u2013200 years",
         carbon_saving_kg_per_kg |-> "10.0",
         landfill_reduction_m3_per_ton |-> "1.8",
         tip |-> "Crush cans to save space and rinse leftover contents."])
    @@ ("paper" :>
        [description |-> "Newspapers, office paper, magazines.",
         recycle |-> "Recycle in paper stream; keep dry and free of food contamination.",
         hazard |-> "Low.",
         time |-> "2\\u20136 weeks",
         carbon_saving_kg_per_kg |-> "1.4",
         landfill_reduction_m3_per_ton |-> "3.3",
         tip |-> "Reuse sheets for notes or crafts before recycling."])
    @@ ("plastic" :>
        [description |-> "Plastic packaging, bottles, containers (various resin codes).",
         recycle |-> "Check local acceptance; PET & HDPE widely accepted; others vary.",
         hazard |-> "High \\u2014 microplastics and long-term persistence in environment.",
         time |-> "100s to 1000s of years",
         carbon_saving_kg_per_kg |-> "2.5",
         landfill_reduction_m3_per_ton |-> "2.0",
         tip |-> "Rinse and sort by type if possible; avoid single-use plastics."])
    @@ ("shoes" :>
        [description |-> "Footwear (synthetic and natural materials).",
         recycle |-> "Donate if wearable; certain programs recycle soles into surfaces/insulation.",
         hazard |-> "Moderate \\u2014 mixed materials hard to recycle.",
         time |-> "25\\u201340 years for synthetics",
         carbon_saving_kg_per_kg |-> "0.8",
         landfill_reduction_m3_per_ton |-> "1.1",
         tip |-> "Repair or donate before recycling/disposal."])
    @@ ("Other Trash" :>
        [description |-> "Non-recyclable residual waste (mixed contaminants).",
         recycle |-> "Not recyclable. Reduce by source separation; follow municipal guidance.",
         hazard |-> "Varies; can contain hazardous items.",
         time |-> "Varies widely",
         carbon_saving_kg_per_kg |-> "0.0",
         landfill_reduction_m3_per_ton |-> "0.0",
         tip |-> "Segregate recyclables and hazardous waste first."])
    @@ ("white-glass" :>
        [description |-> "Clear/white glass bottles/jars.",
         recycle |-> "Highly recyclable; separate by color if required.",
         hazard |-> "Low (broken glass hazard).",
         time |-> "Non-biodegradable",
         carbon_saving_kg_per_kg |-> "0.5",
         landfill_reduction_m3_per_ton |-> "0.6",
         tip |-> "Rinse and recycle."])

\* GUI.py: RECYCLABILITY_SCORE (0..100 per key).
RECYCLABILITY_SCORE_GUI ==
    ("battery" :> 10)
    @@ ("biological" :> 90)
    @@ ("brown-glass" :> 85)
    @@ ("cardboard" :> 95)
    @@ ("clothes" :> 60)
    @@ ("green-glass" :> 85)
    @@ ("metal" :> 98)
    @@ ("paper" :> 96)
    @@ ("plastic" :> 50)
    @@ ("shoes" :> 40)
    @@ ("Other Trash" :> 10)
    @@ ("white-glass" :> 85)

\* GUI.py: str.upper() of every label the shell can predict.
UPPER_GUI ==
    ("battery" :> "BATTERY")
    @@ ("biological" :> "BIOLOGICAL")
    @@ ("brown-glass" :> "BROWN-GLASS")
    @@ ("cardboard" :> "CARDBOARD")
    @@ ("clothes" :> "CLOTHES")
    @@ ("green-glass" :> "GREEN-GLASS")
    @@ ("metal" :> "METAL")
    @@ ("paper" :> "PAPER")
    @@ ("plastic" :> "PLASTIC")
    @@ ("shoes" :> "SHOES")
    @@ (" Other Trash" :> " OTHER TRASH")
    @@ ("white-glass" :> "WHITE-GLASS")

\* app.py: CLASS_LABELS, in index order (index 0 first).
CLASS_LABELS_WEB ==
    << "battery",
       "biological",
       "brown-glass",
       "cardboard",
       "clothes",
       "green-glass",
       "metal",
       "paper",
       "plastic",
       "shoes",
       "Other Trash",
       "white-glass" >>

\* app.py: WASTE_INFO, one record of facts per key.
WASTE_INFO_WEB ==
    ("battery" :>
        [description |-> "Batteries contain heavy metals that pollute soil and water.",
         recycle |-> "Return to e-waste collection centers.",
         hazard |-> "\\u26a0\\ufe0f High (toxic chemicals)",
         time |-> "100+ years",
         carbon_saving |-> "8 kg/kg",
         landfill_reduction |-> "0.5 m\\xb3/ton",
         tip |-> "Tape battery terminals before disposal."])
    @@ ("biological" :>
        [description |-> "Organic waste such as food scraps and garden waste.",
         recycle |-> "Compost at home or community bins.",
         hazard |-> "\\u2705 Low",
         time |-> "2\\u201312 weeks",
         carbon_saving |-> "0.2 kg/kg",
         landfill_reduction |-> "0.8 m\\xb3/ton",
         tip |-> "Mix green and brown waste for efficient composting."])
    @@ ("plastic" :>
        [description |-> "Plastics are non-biodegradable and harmful to oceans.",
         recycle |-> "Send to authorized recycling plants.",
         hazard |-> "\\u26a0\\ufe0f Medium-High",
         time |-> "500\\u20131000 years",
         carbon_saving |-> "2.5 kg/kg",
         landfill_reduction |-> "1.2 m\\xb3/ton",
         tip |-> "Prefer reusable alternatives over single-use plastic."])
    @@ ("cardboard" :>
        [description |-> "Recyclable paper-based material used in packaging.",
         recycle |-> "Flatten and place in paper recycling bins.",
         hazard |-> "\\u2705 Low",
         time |-> "2 months",
         carbon_saving |-> "1.5 kg/kg",
         landfill_reduction |-> "0.9 m\\xb3/ton",
         tip |-> "Keep cardboard dry to ensure recyclability."])
    @@ ("clothes" :>
        [description |-> "Textiles that can often be reused or recycled.",
         recycle |-> "Donate wearable clothes, recycle unusable fabric.",
         hazard |-> "\\u26a0\\ufe0f Medium (dyes, microfibers)",
         time |-> "1\\u20135 years",
         carbon_saving |-> "3 kg/kg",
         landfill_reduction |-> "0.6 m\\xb3/ton",
         tip |-> "Repurpose old clothes into cleaning rags."])
    @@ ("brown-glass" :>
        [description |-> "Brown-tinted glass, often used in bottles.",
         recycle |-> "Sort by color and recycle at glass facilities.",
         hazard |-> "\\u26a0\\ufe0f Medium (sharp edges)",
         time |-> "\\u274c Never (doesn\\u2019t decompose)",
         carbon_saving |-> "0.6 kg/kg",
         landfill_reduction |-> "1.3 m\\xb3/ton",
         tip |-> "Rinse bottles before recycling."])
    @@ ("green-glass" :>
        [description |-> "Green-colored glass containers.",
         recycle |-> "Sort by color for recycling.",
         hazard |-> "\\u26a0\\ufe0f Medium (sharp edges)",
         time |-> "\\u274c Never",
         carbon_saving |-> "0.6 kg/kg",
         landfill_reduction |-> "1.3 m\\xb3/ton",
         tip |-> "Avoid mixing with other glass colors."])
    @@ ("white-glass" :>
        [description |-> "Clear glass containers and jars.",
         recycle |-> "Recycle separately from colored glass.",
         hazard |-> "\\u26a0\\ufe0f Medium (sharp edges)",
         time |-> "\\u274c Never",
         carbon_saving |-> "0.6 kg/kg",
         landfill_reduction |-> "1.3 m\\xb3/ton",
         tip |-> "Remove caps and lids before recycling."])
    @@ ("metal" :>
        [description |-> "Includes aluminum cans and steel products.",
         recycle |-> "Rinse and recycle through metal facilities.",
         hazard |-> "\\u26a0\\ufe0f Medium (sharp edges, rust)",
         time |-> "50\\u2013200 years",
         carbon_saving |-> "9 kg/kg",
         landfill_reduction |-> "1.4 m\\xb3/ton",
         tip |-> "Crush cans to save space."])
    @@ ("paper" :>
        [description |-> "Common recyclable material made from wood pulp.",
         recycle |-> "Recycle clean, dry paper.",
         hazard |-> "\\u2705 Low",
         time |-> "2\\u20136 weeks",
         carbon_saving |-> "1.2 kg/kg",
         landfill_reduction |-> "1.1 m\\xb3/ton",
         tip |-> "Avoid recycling greasy or wet paper."])
    @@ ("shoes" :>
        [description |-> "Footwear made from mixed materials (rubber, leather, fabric).",
         recycle |-> "Donate wearable shoes, recycle rubber soles.",
         hazard |-> "\\u26a0\\ufe0f Medium (synthetics take long to decompose)",
         time |-> "25\\u201340 years",
         carbon_saving |-> "2 kg/kg",
         landfill_reduction |-> "0.4 m\\xb3/ton",
         tip |-> "Reuse old shoes for gardening or outdoor activities."])
    @@ ("trash" :>
        [description |-> "General waste that cannot be recycled.",
         recycle |-> "Dispose of in municipal solid waste bins.",
         hazard |-> "\\u26a0\\ufe0f High (landfill pollution)",
         time |-> "Varies (decades to never)",
         carbon_saving |-> "0 (non-recyclable)",
         landfill_reduction |-> "\\u274c None",
         tip |-> "Reduce trash by practicing 3Rs: Reduce, Reuse, Recycle."])

\* app.py: RECYCLABILITY_SCORE (0..100 per key).
RECYCLABILITY_SCORE_WEB ==
    ("battery" :> 10)
    @@ ("biological" :> 90)
    @@ ("brown-glass" :> 85)
    @@ ("cardboard" :> 95)
    @@ ("clothes" :> 60)
    @@ ("green-glass" :> 85)
    @@ ("metal" :> 98)
    @@ ("paper" :> 96)
    @@ ("plastic" :> 50)
    @@ ("shoes" :> 40)
    @@ ("Other Trash" :> 10)
    @@ ("white-glass" :> 85)

\* app.py: str.upper() of every label the shell can predict.
UPPER_WEB ==
    ("battery" :> "BATTERY")
    @@ ("biological" :> "BIOLOGICAL")
    @@ ("brown-glass" :> "BROWN-GLASS")
    @@ ("cardboard" :> "CARDBOARD")
    @@ ("clothes" :> "CLOTHES")
    @@ ("green-glass" :> "GREEN-GLASS")
    @@ ("metal" :> "METAL")
    @@ ("paper" :> "PAPER")
    @@ ("plastic" :> "PLASTIC")
    @@ ("shoes" :> "SHOES")
    @@ ("Other Trash" :> "OTHER TRASH")
    @@ ("white-glass" :> "WHITE-GLASS")

(***************************************************************************)
(* Shell selection of the tables, and dict.get.                            *)
(***************************************************************************)
Shells == {"desktop", "web"}

CLASS_LABELS(sh) == IF sh = "desktop" THEN CLASS_LABELS_GUI ELSE CLASS_LABELS_WEB

WASTE_INFO(sh) == IF sh = "desktop" THEN WASTE_INFO_GUI ELSE WASTE_INFO_WEB

RECYCLABILITY_SCORE(sh) ==
    IF sh = "desktop" THEN RECYCLABILITY_SCORE_GUI ELSE RECYCLABILITY_SCORE_WEB

\* class_name.upper()
Upper(sh, name) == IF sh = "desktop" THEN UPPER_GUI[name] ELSE UPPER_WEB[name]

\* The empty dict {} that WASTE_INFO.get(class_name, {}) falls back to.
EmptyDict == [k \in {} |-> "N/A"]

\* d.get(k, default)
Get(d, k, default) == IF k \in DOMAIN d THEN d[k] ELSE default

\* f"{RECYCLABILITY_SCORE.get(class_name, 'N/A')}": the score printed, or N/A.
ScoreText(sh, name) ==
    IF name \in DOMAIN RECYCLABILITY_SCORE(sh)
    THEN ToString(RECYCLABILITY_SCORE(sh)[name])
    ELSE "N/A"

(***************************************************************************)
(* Result interpreter: arg-max, label, confidence.                         *)
(***************************************************************************)
\* len(preds)
VLen(v) == Cardinality(DOMAIN v)

\* np.argmax scans from index 0 and keeps the first maximum: a later entry
\* replaces the best one only when it is strictly greater.
RECURSIVE ArgMaxFrom(_, _, _)
ArgMaxFrom(v, i, best) ==
    IF i >= VLen(v) THEN best
    ELSE ArgMaxFrom(v, i + 1, IF v[i] > v[best] THEN i ELSE best)

\* The same scan keeping the last maximum.
RECURSIVE ArgMaxLastFrom(_, _, _)
ArgMaxLastFrom(v, i, best) ==
    IF i >= VLen(v) THEN best
    ELSE ArgMaxLastFrom(v, i + 1, IF v[i] >= v[best] THEN i ELSE best)

ArgMaxLast(v) == ArgMaxLastFrom(v, 1, 0)

\* class_idx = int(np.argmax(preds))
ArgMax(v) == ArgMaxFrom(v, 1, 0)

\* class_name = CLASS_LABELS[class_idx]
ClassName(sh, idx) == CLASS_LABELS(sh)[idx + 1]

\* The probability itself, not scaled to a percentage.
ConfidenceUnscaled(v, idx) == v[idx]

\* confidence = float(preds[class_idx]) * 100.0   (in 1/ProbDenom percent)
Confidence(v, idx) == v[idx] * 100

\* The percentage in hundredths, rounded to nearest: the digits of "%.2f".
Hundredths(conf) == (conf * 100 * 2 + ProbDenom) \div (2 * ProbDenom)

\* f"{confidence:.2f}"
Fmt2(conf) ==
    LET h == Hundredths(conf)
    IN  ToString(h \div 100) \o "." \o
        (IF h % 100 < 10 THEN "0" ELSE "") \o ToString(h % 100)

\* int(confidence), the argument of st.progress
IntPercent(conf) == conf \div ProbDenom

(***************************************************************************)
(* Inputs: probability vectors, image files, output paths, faults.         *)
(***************************************************************************)
\* The vector [1,0,...,0] with its 1 at index i.
OneHot(i) == [k \in ClassIdx |-> IF k = i THEN ProbDenom ELSE 0]

\* The uniform vector, every entry 1/12.
Uniform == [k \in ClassIdx |-> 1]

\* Largest number of non-zero entries of a non-uniform interpreter input.
MaxSupport == 2

\* The ways to write n as an ordered sum of k positive integers.
RECURSIVE Compositions(_, _)
Compositions(n, k) ==
    IF k = 0 THEN (IF n = 0 THEN {<< >>} ELSE {})
    ELSE UNION { { <<a>> \o r : r \in Compositions(n - a, k - 1) } : a \in 1 .. n }

\* The normalised vector whose non-zero entries, at the indices S in
\* ascending order, are the parts c.
VecOf(S, c) ==
    [i \in ClassIdx |-> IF i \in S THEN c[Cardinality({j \in S : j <= i})] ELSE 0]

\* Normalised vectors (entries sum to 1) with at most MaxSupport non-zero
\* entries, and the uniform vector.
InterpVectors ==
    {Uniform} \cup
    UNION { { VecOf(S, c) : c \in Compositions(ProbDenom, Cardinality(S)) } :
            S \in { T \in SUBSET ClassIdx :
                      Cardinality(T) >= 1 /\ Cardinality(T) <= MaxSupport } }

\* What the stub classifiers of the shell runs return: every one-hot vector
\* and the uniform vector.
StubVectors == { OneHot(i) : i \in ClassIdx } \cup {Uniform}

\* Image files a user can pick: two readable ones and an unreadable one.
ValidPaths == {"a.jpg", "b.png"}

\* The <<width, height>> of the image each readable file holds: an ordinary
\* photograph and a strip one pixel high.
ImageSize(path) ==
    CASE path = "a.jpg" -> <<640, 480>>
      [] path = "b.png" -> <<672, 1>>

BadPaths == {"corrupt.bmp"}

Paths == ValidPaths \cup BadPaths

\* None, for a path.
None == "None"

\* What a cancelled file dialog returns.
Cancel == ""

\* Save-dialog answers: a writable path and one that cannot be written.
OutPaths == {"report.pdf", "/readonly/report.pdf"}

Writable(p) == p = "report.pdf"

\* A loaded classifier is the vector model.predict returns for each readable
\* image (a pure function of the image).  The stub that always returns v:
ConstantStub(v) == [p \in ValidPaths |-> v]

\* The stub that tells the two images apart: class i for one, the next
\* class for the other.
ShiftStub(i) ==
    [p \in ValidPaths |-> IF p = "a.jpg" THEN OneHot(i) ELSE OneHot((i + 1) % NumClasses)]

\* The classifiers a run may have loaded.
ModelChoices ==
    { ConstantStub(v) : v \in StubVectors } \cup { ShiftStub(i) : i \in ClassIdx }

\* Ticks of the wall clock a run may use (one per user interaction).
MaxClock == 3

VARIABLES
    shell,              \* which program runs: "desktop" (GUI.py) or "web" (app.py)
    pc,                 \* "start", "running" or "aborted"
    modelFile,          \* the model file on disk: <<>> missing/invalid, or <<m>>
    model,              \* the module-level model: <<>> before the load, or <<m>>
    clock,              \* the wall clock
    uploaded_path,      \* EcoSortGUI.uploaded_path
    last_prediction,    \* EcoSortGUI.last_prediction: <<>> or <<name, conf, preds>>
    preview_label,      \* [image, text] of the preview label
    pred_header,        \* text of the prediction header
    conf_bar,           \* value of the progress bar
    details_text,       \* content of the details text area
    recyc_score_label,  \* text of the recyclability label
    carbon_label,       \* text of the carbon label
    landfill_label,     \* text of the landfill label
    chart,              \* the chart frame: <<>> or <<preds drawn>>
    timestamp_label,    \* text of the timestamp label
    dialog,             \* the last message box: <<>> or <<kind, title, message>>
    tmp_disk,           \* names of the temporary files that exist on disk
    files,              \* content of the files written: name -> <<>> or <<pdf>>
    page,               \* what the last Streamlit render pass put on the page
    lastEvent,          \* the interaction just handled and how it ended
    preds_in,           \* interpreter run: the input vector, <<>> when none
    result,             \* interpreter run: <<>> or <<shell, idx, name, conf>>
    image_in,           \* preprocessing run: the decoded image, <<>> when none
    tensor              \* preprocessing run: <<>> or the classifier's input

widgets == <<preview_label, pred_header, conf_bar, details_text, recyc_score_label,
             carbon_label, landfill_label, chart, timestamp_label>>

session == <<uploaded_path, last_prediction>>

vars == <<shell, pc, modelFile, model, clock, uploaded_path, last_prediction,
          preview_label, pred_header, conf_bar, details_text, recyc_score_label,
          carbon_label, landfill_label, chart, timestamp_label, dialog, tmp_disk,
          files, page, lastEvent, preds_in, result, image_in, tensor>>

\* An event record.
Event(op, arg, fault, outcome) ==
    [op |-> op, arg |-> arg, fault |-> fault, outcome |-> outcome]

\* The empty page.
EmptyPage ==
    [choice |-> "", error |-> << >>, image |-> None, header |-> "",
     progress |-> << >>, plot |-> << >>, facts |-> << >>,
     recyc_chart |-> << >>, wedges |-> << >>, download |-> << >>]

\* The widgets as EcoSortGUI.__init__ builds them, and its two state fields.
InitGUI ==
    /\ uploaded_path = None
    /\ last_prediction = << >>
    /\ preview_label = [image |-> None, text |-> "No image loaded"]
    /\ pred_header = "Upload an image to start"
    /\ conf_bar = 0
    /\ details_text = ""
    /\ recyc_score_label = "Recyclability Score: N/A"
    /\ carbon_label = "Carbon saving (kg/kg): N/A"
    /\ landfill_label = "Landfill reduction (m\\xb3/ton): N/A"
    /\ chart = << >>
    /\ timestamp_label = ""

\* Process start, before the module-level model load has run.
Init ==
    /\ shell \in Shells
    /\ pc = "start"
    /\ modelFile \in {<< >>} \cup { <<m>> : m \in ModelChoices }
    /\ model = << >>
    /\ clock = 0
    /\ InitGUI
    /\ dialog = << >>
    /\ tmp_disk = {}
    /\ files = [n \in {} |-> << >>]
    /\ page = EmptyPage
    /\ lastEvent = Event("start", "", "none", "none")
    /\ preds_in = << >>
    /\ result = << >>
    /\ image_in = << >>
    /\ tensor = << >>

\* str(e) of the exception raised at a step.
ExcText(failAt) ==
    CASE failAt = "load"      -> "No file or directory found at ecosortai_final_model.h5"
      [] failAt = "open"      -> "cannot identify image file"
      [] failAt = "predict"   -> "classifier error"
      [] failAt = "chart"     -> "chart error"
      [] failAt = "img_save"  -> "cannot write image"
      [] failAt = "savefig"   -> "cannot write chart"
      [] failAt = "drawImage" -> "cannot embed image"
      [] failAt = "save"      -> "cannot write pdf"
      [] OTHER                -> ""

\* A load that falls back to a built-in classifier when the file is bad.
LoadModelFallback ==
    /\ pc = "start"
    /\ pc' = "running"
    /\ model' = IF modelFile = << >> THEN <<ConstantStub(Uniform)>> ELSE modelFile
    /\ lastEvent' = Event("load", "", "none", "loaded")
    /\ clock' = clock
    /\ UNCHANGED <<shell, modelFile, widgets, session, dialog, tmp_disk, files,
                   page, preds_in, result, image_in, tensor>>

\* tf.keras.models.load_model(MODEL_PATH) at module level.  GUI.py re-raises
\* a failure as RuntimeError and the process ends before any window exists.
\* app.py caches the loaded instance (st.cache_resource); a failed load is
\* not cached: the script run ends there, before any st.* call, Streamlit
\* shows the exception on the page, and the next run tries again.  A first
\* run that loads the model goes on to render the page the radio starts
\* on, Home.
LoadModel ==
    /\ \/ pc = "start"
       \/ shell = "web" /\ pc = "aborted" /\ clock < MaxClock
    /\ IF modelFile = << >>
       THEN /\ pc' = "aborted"
            /\ model' = model
            /\ page' = IF shell = "web"
                       THEN [EmptyPage EXCEPT !.error = <<ExcText("load")>>]
                       ELSE page
            /\ lastEvent' = Event("load", "", "none", "load_failed")
       ELSE /\ pc' = "running"
            /\ model' = modelFile
            /\ page' = IF shell = "web"
                       THEN [EmptyPage EXCEPT !.choice = "\\U0001f3e0 Home"]
                       ELSE page
            /\ lastEvent' = Event("load", "", "none", "loaded")
    /\ clock' = IF pc = "start" THEN clock ELSE clock + 1
    /\ UNCHANGED <<shell, modelFile, widgets, session, dialog, tmp_disk, files,
                   preds_in, result, image_in, tensor>>

(***************************************************************************)
(* Desktop shell (GUI.py): upload, preview, prediction.                    *)
(***************************************************************************)
\* Where a prediction can raise besides an unreadable image: inside
\* model.predict, or while the confidence chart is drawn.
PredictFaults == {"none", "predict", "chart"}

\* datetime.datetime.now().strftime("%Y-%m-%d %H:%M:%S") at clock tick t.
Strftime(t) == "tick-" \o ToString(t)

\* messagebox.showerror / showwarning / showinfo
MessageBox(kind, title, message) == <<kind, title, message>>

\* max_size = 380, the side of the preview box.
max_size == 380

RECURSIVE Log2Floor(_)
\* floor(log2(n)) for n >= 1.
Log2Floor(n) == IF n < 2 THEN 0 ELSE 1 + Log2Floor(n \div 2)

RECURSIVE Pow2(_)
Pow2(e) == IF e = 0 THEN 1 ELSE 2 * Pow2(e - 1)

RECURSIVE DoublingsToReach(_, _)
\* The least n with v * 2^n >= longer.
DoublingsToReach(v, longer) ==
    IF v >= longer THEN 0 ELSE 1 + DoublingsToReach(2 * v, longer)

\* floor(log2(max_size / longer)): the binary exponent of the quotient.
ScaleExponent(longer) ==
    IF longer <= max_size
    THEN Log2Floor(max_size \div longer)
    ELSE 0 - DoublingsToReach(max_size, longer)

RECURSIVE ShiftedRemainder(_, _)
\* (max_size * 2^t) mod longer, by long division.
ShiftedRemainder(longer, t) ==
    IF t = 0 THEN max_size % longer
    ELSE (2 * ShiftedRemainder(longer, t - 1)) % longer

\* int(x * scale) where scale = max_size / longer as a 64-bit float (a
\* significand of 53 bits, rounded to nearest, ties to even) and the product
\* is rounded the same way, for 1 <= x <= longer.  The float product
\* truncates to the exact quotient (max_size * x) div longer except where
\* that quotient is whole, the division was rounded down, and the product's
\* shortfall d / 2^t is more than half the gap between the whole number and
\* the float below it: then it truncates to one less.
FloatScaled(x, longer) ==
    LET exact     == (max_size * x) \div longer
        j         == ScaleExponent(longer)
        \* scale = m / 2^t with 2^52 <= m < 2^53
        t         == 52 - j
        r         == ShiftedRemainder(longer, t)
        lowBit    == (2 * ShiftedRemainder(longer, t - 1)) \div longer
        roundedUp == 2 * r > longer \/ (2 * r = longer /\ lowBit = 1)
        d         == (r * x) \div longer
        k         == Log2Floor(exact)
        e         == IF exact = Pow2(k) THEN k - j - 2 ELSE k - j - 1
    IN  IF (max_size * x) % longer # 0 THEN exact
        ELSE IF r = 0 \/ roundedUp THEN exact
        ELSE IF e >= 0 /\ d <= Pow2(e) THEN exact
        ELSE exact - 1

\* The size _display_preview resizes to: scale = min(max_size / w,
\* max_size / h), new_w, new_h = int(w * scale), int(h * scale).  The smaller
\* quotient is the one by the longer side.
PreviewSize(size) ==
    LET w      == size[1]
        h      == size[2]
        longer == IF w >= h THEN w ELSE h
    IN  << FloatScaled(w, longer), FloatScaled(h, longer) >>

\* Whether the try block of _display_preview raises: Image.open fails, or
\* Image.resize is given a width or height of 0.
PreviewRaises(path) ==
    \/ path \notin ValidPaths
    \/ PreviewSize(ImageSize(path))[1] = 0
    \/ PreviewSize(ImageSize(path))[2] = 0

\* _display_preview: the image replaces the preview and its text; when the
\* try block raises only the text changes.
DisplayPreview(path) ==
    preview_label' =
        IF PreviewRaises(path)
        THEN [preview_label EXCEPT !.text = "Preview error"]
        ELSE [image |-> path, text |-> ""]

\* The details text _predict_image builds.
DetailsText(class_name, confidence, info) ==
    "\\U0001f5d1\\ufe0f Class: " \o Upper("desktop", class_name) \o "\\n" \o
    "\\U0001f4ca Confidence: " \o Fmt2(confidence) \o "%\\n\\n" \o
    "\\U0001f4d6 Description:\\n" \o Get(info, "description", "N/A") \o "\\n\\n" \o
    "\\u267b\\ufe0f How to Recycle:\\n" \o Get(info, "recycle", "N/A") \o "\\n\\n" \o
    "\\u26a0\\ufe0f Hazard Level:\\n" \o Get(info, "hazard", "N/A") \o "\\n\\n" \o
    "\\u23f3 Estimated Decomposition Time: " \o Get(info, "time", "N/A") \o "\\n\\n" \o
    "\\U0001f4a1 Eco Tip: " \o Get(info, "tip", "N/A") \o "\\n\\n" \o
    "Suggested Disposal / Action:\\n- Segregate from other waste streams.\\n- Take to local recycling / hazardous collection if applicable.\\n"

\* A last_prediction that keeps the first result once one is stored.
KeepFirstPrediction(old, class_name, confidence, preds) ==
    IF old = << >> THEN <<class_name, confidence, preds>> ELSE old

\* self.last_prediction = (class_name, confidence, preds.copy())
NewLastPrediction(old, class_name, confidence, preds) ==
    <<class_name, confidence, preds>>

\* The step at which _predict_image raises, "none" when it does not.
PredictFailAt(path, fault) ==
    IF path \notin ValidPaths THEN "open"
    ELSE IF fault \in {"predict", "chart"} THEN fault
    ELSE "none"

\* _predict_image(path): everything inside its try, and its except clause.
PredictImage(path, fault) ==
    LET failAt     == PredictFailAt(path, fault)
        preds      == model[1][path]
        class_idx  == ArgMax(preds)
        class_name == ClassName("desktop", class_idx)
        confidence == Confidence(preds, class_idx)
        info       == Get(WASTE_INFO("desktop"), class_name, EmptyDict)
        rec_score  == Get(RECYCLABILITY_SCORE("desktop"), class_name, 0)
        carbon     == Get(info, "carbon_saving_kg_per_kg", "0.0")
        landfill   == Get(info, "landfill_reduction_m3_per_ton", "0.0")
        shown      == failAt \in {"chart", "none"}  \* the result reached the widgets
    IN  \* "Analyzing image...", bar at 0 and details cleared come first
        /\ pred_header' =
               IF shown
               THEN "\\U0001f50e Predicted: " \o Upper("desktop", class_name) \o
                    " (" \o Fmt2(confidence) \o "%)"
               ELSE "Analyzing image..."
        /\ conf_bar' = IF shown THEN confidence ELSE 0
        /\ details_text' = IF shown THEN DetailsText(class_name, confidence, info) ELSE ""
        /\ recyc_score_label' =
               IF shown
               THEN "Recyclability Score: " \o ToString(rec_score) \o "/100"
               ELSE recyc_score_label
        /\ carbon_label' =
               IF shown THEN "Carbon saving (kg/kg): " \o carbon ELSE carbon_label
        /\ landfill_label' =
               IF shown
               THEN "Landfill reduction (m\\xb3/ton): " \o landfill
               ELSE landfill_label
        \* _draw_confidence_chart destroys the old chart, then draws the new one
        /\ chart' = CASE failAt = "none"  -> <<preds>>
                      [] failAt = "chart" -> << >>
                      [] OTHER            -> chart
        /\ timestamp_label' =
               IF failAt = "none"
               THEN "Last analyzed: " \o Strftime(clock)
               ELSE timestamp_label
        /\ last_prediction' =
               IF failAt = "none"
               THEN NewLastPrediction(last_prediction, class_name, confidence, preds)
               ELSE last_prediction
        /\ dialog' =
               IF failAt = "none" THEN dialog
               ELSE MessageBox("showerror", "Prediction error",
                               "Failed to predict: " \o ExcText(failAt))

\* A callback that goes on with whatever the dialog returned.
DialogCancelledIgnored(path) == FALSE

\* if not path: return (a cancelled dialog returns the empty string).
DialogCancelled(path) == path = Cancel

\* upload_image: the button's callback, with the answer of the file dialog.
UploadImage(path, fault) ==
    /\ shell = "desktop"
    /\ pc = "running"
    /\ clock < MaxClock
    /\ clock' = clock + 1
    /\ IF DialogCancelled(path)
       THEN /\ lastEvent' = Event("upload", path, "none", "cancel")
            /\ UNCHANGED <<widgets, session, dialog>>
       ELSE /\ uploaded_path' = path
            /\ DisplayPreview(path)
            /\ PredictImage(path, fault)
            /\ lastEvent' =
                   Event("upload", path, PredictFailAt(path, fault),
                         IF PredictFailAt(path, fault) = "none"
                         THEN "predicted" ELSE "predict_error")
    /\ UNCHANGED <<shell, pc, modelFile, model, tmp_disk, files, page, preds_in, result, image_in, tensor>>

(***************************************************************************)
(* Temporary files and the PDF document.                                   *)
(***************************************************************************)
Suffixes == {".jpg", ".png", ".pdf"}

\* The name tempfile.NamedTemporaryFile gives its n-th candidate.
TmpName(n, suffix) == "tmp" \o ToString(n) \o suffix

\* tempfile.NamedTemporaryFile(delete=False, suffix=...): a name no file on
\* disk has.  The file exists from this call on.
Fresh(disk, suffix) ==
    LET n == CHOOSE k \in 1 .. (Cardinality(disk) + 1) :
                 /\ \A s \in Suffixes : TmpName(k, s) \notin disk
                 /\ \A j \in 1 .. (k - 1) : \E s \in Suffixes : TmpName(j, s) \in disk
    IN  TmpName(n, suffix)

\* The elements of a list.
Range(s) == { s[i] : i \in 1 .. Len(s) }

\* The last k characters of a file name.
Suffix(name, k) == SubSeq(name, Len(name) - k + 1, Len(name))

\* The temporary files made for embedding an image or a chart in a PDF.
EmbedTemps(disk) ==
    { f \in disk : Len(f) >= 4 /\ Suffix(f, 4) \in {".jpg", ".png"} }

\* os.path.basename(MODEL_PATH)
ModelId == "ecosortai_final_model.h5"

\* A desktop report without its recyclability line.
PdfLinesGUIShort(class_name) ==
    LET info == Get(WASTE_INFO("desktop"), class_name, EmptyDict)
    IN  << "Description: " \o Get(info, "description", "N/A"),
           "How to Recycle: " \o Get(info, "recycle", "N/A"),
           "Hazard: " \o Get(info, "hazard", "N/A"),
           "Estimated Decomposition Time: " \o Get(info, "time", "N/A"),
           "Eco Tip: " \o Get(info, "tip", "N/A"),
           "Carbon saving (kg/kg): " \o Get(info, "carbon_saving_kg_per_kg", "N/A"),
           "Landfill reduction (m\\xb3/ton): " \o
               Get(info, "landfill_reduction_m3_per_ton", "N/A") >>

\* The eight fact lines of the desktop report.
PdfLinesGUI(class_name) ==
    LET info == Get(WASTE_INFO("desktop"), class_name, EmptyDict)
    IN  << "Description: " \o Get(info, "description", "N/A"),
           "How to Recycle: " \o Get(info, "recycle", "N/A"),
           "Hazard: " \o Get(info, "hazard", "N/A"),
           "Estimated Decomposition Time: " \o Get(info, "time", "N/A"),
           "Eco Tip: " \o Get(info, "tip", "N/A"),
           "Recyclability Score: " \o ScoreText("desktop", class_name) \o "/100",
           "Carbon saving (kg/kg): " \o Get(info, "carbon_saving_kg_per_kg", "N/A"),
           "Landfill reduction (m\\xb3/ton): " \o
               Get(info, "landfill_reduction_m3_per_ton", "N/A") >>

\* The eight fact lines of the web report.
PdfLinesWEB(class_name) ==
    LET info == Get(WASTE_INFO("web"), class_name, EmptyDict)
    IN  << "Description: " \o Get(info, "description", "N/A"),
           "Recycle: " \o Get(info, "recycle", "N/A"),
           "Hazard: " \o Get(info, "hazard", "N/A"),
           "Decomposition Time: " \o Get(info, "time", "N/A"),
           "Eco Tip: " \o Get(info, "tip", "N/A"),
           "Recyclability Score: " \o ScoreText("web", class_name) \o "/100",
           "Carbon saving: " \o Get(info, "carbon_saving", "N/A"),
           "Landfill reduction: " \o Get(info, "landfill_reduction", "N/A") >>

\* What the canvas holds when c.save() writes it: the strings drawn, in
\* order, then the images drawn; one showPage, so one page.
PdfDoc(sh, class_name, confidence, lines, image, chartOf, now) ==
    LET title      == "EcoSortAI - Waste Classification Report"
        meta       == << "Generated: " \o Strftime(now), "Model: " \o ModelId >>
        prediction == "Predicted Class: " \o Upper(sh, class_name) \o
                      " (" \o Fmt2(confidence) \o "%)"
        \* c.drawString(40, H - down, text), in call order
        predDown   == IF sh = "desktop" THEN 110 ELSE 120
        firstDown  == IF sh = "desktop" THEN 110 + 18 ELSE 140
    IN  [pages      |-> 1,
         title      |-> title,
         meta       |-> meta,
         prediction |-> prediction,
         lines      |-> lines,
         strings    |-> << [down |-> 50, text |-> title],
                           [down |-> 70, text |-> meta[1]],
                           [down |-> 85, text |-> meta[2]],
                           [down |-> predDown, text |-> prediction] >>
                        \o [i \in 1 .. Len(lines) |->
                               [down |-> firstDown + 16 * (i - 1),
                                text |-> lines[i]]],
         image      |-> image,
         chart      |-> chartOf]

\* f with the file `name` holding `content`.
WriteFile(f, name, content) ==
    [n \in DOMAIN f \cup {name} |-> IF n = name THEN content ELSE f[n]]

(***************************************************************************)
(* Desktop shell (GUI.py): download_pdf.                                   *)
(***************************************************************************)
\* Where an export can raise besides an unreadable uploaded image and an
\* unwritable output path.
ExportFaults == {"none", "img_save", "savefig", "drawImage"}

\* A guard that lets every download through.
NoPredictionUnchecked(lp) == FALSE

\* if not self.last_prediction
NoPrediction(lp) == lp = << >>

\* The try/finally of download_pdf, step by step: the temporary files that
\* exist when it ends, the step that raised, and the document written.
ExportRun(up, lp, out_path, fault, disk, now) ==
    LET hasImg   == up # None
        t_img    == Fresh(disk, ".jpg")
        \* tmp_img exists; Image.open / save run before tmp_files.append
        imgFail  == IF ~hasImg THEN "none"
                    ELSE IF up \notin ValidPaths THEN "open"
                    ELSE IF fault = "img_save" THEN "img_save"
                    ELSE "none"
        disk1    == IF hasImg THEN disk \cup {t_img} ELSE disk
        list1    == IF hasImg /\ imgFail = "none" THEN <<t_img>> ELSE << >>
        \* tmp_chart exists; fig.savefig runs before tmp_files.append
        atChart  == imgFail = "none"
        t_chart  == Fresh(disk1, ".png")
        chartBad == atChart /\ fault = "savefig"
        disk2    == IF atChart THEN disk1 \cup {t_chart} ELSE disk1
        list2    == IF atChart /\ ~chartBad THEN Append(list1, t_chart) ELSE list1
        \* class_name, confidence, preds = self.last_prediction, before try
        unpacked == lp # << >>
        failAt   == IF ~unpacked THEN "unpack"
                    ELSE IF imgFail # "none" THEN imgFail
                    ELSE IF chartBad THEN "savefig"
                    ELSE IF fault = "drawImage" THEN "drawImage"
                    ELSE IF ~Writable(out_path) THEN "save"
                    ELSE "none"
        doc      == PdfDoc("desktop", lp[1], lp[2], PdfLinesGUI(lp[1]),
                           IF hasImg THEN <<up>> ELSE << >>, <<lp[3]>>, now)
    IN  [failAt |-> failAt,
         \* finally: os.remove every name in tmp_files
         disk   |-> IF unpacked THEN disk2 \ Range(list2) ELSE disk,
         doc    |-> doc]

\* root.mainloop() runs every callback: an exception that leaves one is
\* reported on stderr by Tk and the loop goes on, the process with it.
CallbackRaised(p) == p

\* download_pdf: the button's callback, with the answer of the save dialog.
\* It has no except clause: an exception leaves the callback and Tk's
\* mainloop reports it on stderr; no message box is shown for it.
DownloadPdf(out_path, fault) ==
    /\ shell = "desktop"
    /\ pc = "running"
    /\ clock < MaxClock
    /\ clock' = clock + 1
    /\ IF NoPrediction(last_prediction)
       THEN /\ dialog' = MessageBox("showwarning", "No prediction",
                                    "Please upload and analyze an image first.")
            /\ lastEvent' = Event("download", "", "none", "warning")
            /\ UNCHANGED <<tmp_disk, files>>
       ELSE IF DialogCancelled(out_path)
       THEN /\ lastEvent' = Event("download", out_path, "none", "cancel")
            /\ UNCHANGED <<dialog, tmp_disk, files>>
       ELSE LET run == ExportRun(uploaded_path, last_prediction, out_path, fault,
                                 tmp_disk, clock)
            IN  /\ tmp_disk' = run.disk
                /\ IF run.failAt = "none"
                   THEN /\ files' = WriteFile(files, out_path, <<run.doc>>)
                        /\ dialog' = MessageBox("showinfo", "Saved",
                                                "Report saved to " \o out_path)
                        /\ lastEvent' = Event("download", out_path, "none", "saved")
                   ELSE /\ UNCHANGED <<files, dialog>>
                        /\ lastEvent' = Event("download", out_path, run.failAt, "exception")
    /\ pc' = IF lastEvent'.outcome = "exception" THEN CallbackRaised(pc) ELSE pc
    /\ UNCHANGED <<shell, modelFile, model, widgets, session, page, preds_in, result, image_in, tensor>>

(***************************************************************************)
(* Web shell (app.py): generate_pdf and the script's render passes.        *)
(***************************************************************************)
\* Where a render pass of the upload page can raise besides an unreadable
\* upload: in model.predict, or in generate_pdf while the image is saved,
\* embedded, or the document is written.
WebFaults == {"none", "predict", "img_save", "drawImage", "save"}

\* generate_pdf(class_name, confidence, uploaded_image), step by step: the
\* temporary files that exist when it ends, the step that raised, the
\* name it returns and what that file holds.
GeneratePdf(class_name, confidence, image, fault, disk, now) ==
    LET t_pdf  == Fresh(disk, ".pdf")
        disk1  == disk \cup {t_pdf}
        hasImg == image # None
        t_img  == Fresh(disk1, ".png")
        disk2  == IF hasImg THEN disk1 \cup {t_img} ELSE disk1
        imgFail == IF hasImg /\ fault \in {"img_save", "drawImage"}
                   THEN fault ELSE "none"
        \* os.remove(img_path) runs only when save and drawImage returned
        disk3  == IF hasImg /\ imgFail = "none" THEN disk2 \ {t_img} ELSE disk2
        failAt == IF imgFail # "none" THEN imgFail
                  ELSE IF fault = "save" THEN "save"
                  ELSE "none"
        doc    == PdfDoc("web", class_name, confidence, PdfLinesWEB(class_name),
                         IF hasImg THEN <<image>> ELSE << >>, << >>, now)
    IN  [failAt  |-> failAt,
         disk    |-> disk3,
         name    |-> t_pdf,
         content |-> IF failAt = "none" THEN <<doc>> ELSE << >>]

\* The step at which a render pass of the upload page raises.
WebFailAt(file, fault) ==
    IF file \notin ValidPaths THEN "open"
    ELSE IF fault = "none" THEN "none"
    ELSE fault

\* The five fact texts of the results section.
WebFacts(class_name) ==
    LET info == Get(WASTE_INFO("web"), class_name, EmptyDict)
    IN  << Get(info, "description", "N/A"), Get(info, "recycle", "N/A"),
           Get(info, "hazard", "N/A"), Get(info, "time", "N/A"),
           Get(info, "tip", "N/A") >>

\* recyclability_chart(score): the two wedges of ax.pie.
RecyclabilityChart(score) == <<score, 100 - score>>

\* A run that goes on to the results although model.predict raised.
ResultsRenderedAfterError(failAt) == failAt # "open"

\* The statements from st.subheader on run only when Image.open and
\* model.predict returned: an exception in either ends the script run.
ResultsRendered(failAt) == failAt \notin {"open", "predict"}

\* One script run with the upload page chosen and `file` in the uploader
\* (Cancel: no file).  The script has no try: an exception ends the run,
\* Streamlit shows it on the page and keeps what was rendered before it.
WebUpload(file, fault) ==
    /\ shell = "web"
    /\ pc = "running"
    /\ clock < MaxClock
    /\ clock' = clock + 1
    /\ IF file = Cancel
       THEN /\ page' = [EmptyPage EXCEPT !.choice = "\\U0001f4e4 Upload Image"]
            /\ lastEvent' = Event("render", file, "none", "rendered")
            /\ UNCHANGED <<tmp_disk, files>>
       ELSE LET failAt     == WebFailAt(file, fault)
                preds      == model[1][file]
                class_idx  == ArgMax(preds)
                class_name == ClassName("web", class_idx)
                confidence == Confidence(preds, class_idx)
                predicted  == ResultsRendered(failAt)
                pdf        == GeneratePdf(class_name, confidence, file, fault,
                                          tmp_disk, clock)
            IN  /\ page' =
                       [choice      |-> "\\U0001f4e4 Upload Image",
                        error       |-> IF failAt = "none" THEN << >>
                                        ELSE <<ExcText(failAt)>>,
                        image       |-> IF failAt = "open" THEN None ELSE file,
                        header      |-> IF predicted
                                        THEN "\\U0001f50e Predicted: **" \o
                                             Upper("web", class_name) \o "** (" \o
                                             Fmt2(confidence) \o "%)"
                                        ELSE "",
                        progress    |-> IF predicted THEN <<IntPercent(confidence)>>
                                        ELSE << >>,
                        plot        |-> IF predicted THEN <<preds>> ELSE << >>,
                        facts       |-> IF predicted THEN WebFacts(class_name)
                                        ELSE << >>,
                        recyc_chart |-> IF predicted
                                        THEN <<Get(RECYCLABILITY_SCORE("web"),
                                                   class_name, 50)>>
                                        ELSE << >>,
                        wedges      |-> IF predicted
                                        THEN RecyclabilityChart(
                                                 Get(RECYCLABILITY_SCORE("web"),
                                                     class_name, 50))
                                        ELSE << >>,
                        download    |-> IF failAt = "none" THEN <<pdf.name>>
                                        ELSE << >>]
                /\ tmp_disk' = IF predicted THEN pdf.disk ELSE tmp_disk
                /\ files' = IF predicted
                            THEN WriteFile(files, pdf.name, pdf.content)
                            ELSE files
                /\ lastEvent' = Event("render", file, failAt,
                                      IF failAt = "none" THEN "rendered" ELSE "error")
    /\ UNCHANGED <<shell, pc, modelFile, model, widgets, session, dialog,
                   preds_in, result, image_in, tensor>>

\* The pages without an uploader.
StaticChoices ==
    {"\\U0001f3e0 Home", "\\u2139\\ufe0f About Project", "\\U0001f4e9 Contact Us"}

\* One script run with a static page chosen.
WebRender(choice) ==
    /\ shell = "web"
    /\ pc = "running"
    /\ clock < MaxClock
    /\ clock' = clock + 1
    /\ page' = [EmptyPage EXCEPT !.choice = choice]
    /\ lastEvent' = Event("render", choice, "none", "rendered")
    /\ UNCHANGED <<shell, pc, modelFile, model, widgets, session, dialog,
                   tmp_disk, files, preds_in, result, image_in, tensor>>

(***************************************************************************)
(* The shells as state machines.                                           *)
(***************************************************************************)
Upload == \E path \in Paths \cup {Cancel}, fault \in PredictFaults : UploadImage(path, fault)

Download == \E out_path \in OutPaths \cup {Cancel}, fault \in ExportFaults : DownloadPdf(out_path, fault)

WebUploadPage == \E file \in Paths \cup {Cancel}, fault \in WebFaults : WebUpload(file, fault)

WebStaticPage == \E choice \in StaticChoices : WebRender(choice)

Next == LoadModel \/ Upload \/ Download \/ WebUploadPage \/ WebStaticPage

Spec == Init /\ [][Next]_vars

(***************************************************************************)
(* The result interpreter alone, on every bounded probability vector.      *)
(***************************************************************************)
InitInterp ==
    /\ shell \in Shells
    /\ pc = "running"
    /\ modelFile = << >>
    /\ model = << >>
    /\ clock = 0
    /\ InitGUI
    /\ dialog = << >>
    /\ tmp_disk = {}
    /\ files = [n \in {} |-> << >>]
    /\ page = EmptyPage
    /\ lastEvent = Event("start", "", "none", "none")
    /\ preds_in \in { <<v>> : v \in InterpVectors }
    /\ result = << >>
    /\ image_in = << >>
    /\ tensor = << >>

\* Lines 322-324 of GUI.py and 248-250 of app.py on preds_in.
Interpret ==
    /\ preds_in # << >>
    /\ result = << >>
    /\ LET preds      == preds_in[1]
           class_idx  == ArgMax(preds)
           class_name == ClassName(shell, class_idx)
           confidence == Confidence(preds, class_idx)
       IN  result' = <<class_idx, class_name, confidence>>
    /\ lastEvent' = Event("interpret", "", "none", "interpreted")
    /\ UNCHANGED <<shell, pc, modelFile, model, clock, widgets, session, dialog,
                   tmp_disk, files, page, preds_in, image_in, tensor>>

NextInterp == Interpret

SpecInterp == InitInterp /\ [][NextInterp]_vars

(***************************************************************************)
(* The preprocessing of an uploaded image alone, on bounded images.  An    *)
(* image is its PIL mode, its size <<width, height>> and bounds lo..hi on  *)
(* the 8-bit values of its bands; a tensor is its numpy shape, its dtype   *)
(* and bounds on its entries, each a fraction <<numerator, denominator>>.  *)
(***************************************************************************)
\* The side of the classifier's input, resize((224, 224)).
TargetSide == 224

\* The divisor of the normalisation, / 255.0.
PixelScale == 255

\* The largest value of an 8-bit band.
ByteMax == 255

MaxDim == 3

\* Widths and heights: tiny ones, the target itself and a large one.
SampleDims == (1 .. MaxDim) \cup {TargetSide, TargetSide * MaxDim}

SampleBytes == {0, 1, 128, ByteMax}

ImageModes == {"L", "RGB", "RGBA"}

Images ==
    { [mode |-> m, size |-> <<w, h>>, lo |-> lo, hi |-> hi] :
        m \in ImageModes, w \in SampleDims, h \in SampleDims,
        lo \in SampleBytes, hi \in SampleBytes }

ValidImages == { i \in Images : i.lo <= i.hi }

\* Image.getbands() of a mode.
GetBands(mode) ==
    CASE mode = "L"    -> <<"L">>
      [] mode = "RGB"  -> <<"R", "G", "B">>
      [] mode = "RGBA" -> <<"R", "G", "B", "A">>

\* A decoding that leaves the file's mode as it is.
ConvertSkipped(image, mode) == image

\* Image.convert(mode) to an 8-bit mode: L is copied to each band and the
\* alpha band of RGBA is dropped, so the values stay within the bounds.
Convert(image, mode) == [image EXCEPT !.mode = mode]

\* Image.resize(size) with the default filter.  An image of that size, or of
\* one value, keeps its values; otherwise resampling interpolates (which
\* filter depends on the installed Pillow; a bicubic one overshoots) and
\* the results are clipped to the 8-bit range.
Resize(image, size) ==
    IF image.size = size \/ image.lo = image.hi
    THEN [image EXCEPT !.size = size]
    ELSE [image EXCEPT !.size = size, !.lo = 0, !.hi = ByteMax]

\* np.asarray(image, dtype): shape (height, width) for one band and
\* (height, width, bands) otherwise; the entries are the band values.
AsArray(image, dtype) ==
    LET bands == Len(GetBands(image.mode))
    IN  [shape |-> <<image.size[2], image.size[1]>>
                      \o (IF bands = 1 THEN << >> ELSE <<bands>>),
         dtype |-> dtype,
         lo    |-> <<image.lo, 1>>,
         hi    |-> <<image.hi, 1>>]

\* arr / 255.0, entry by entry.
Normalize(arr) ==
    [arr EXCEPT !.lo = <<arr.lo[1], arr.lo[2] * PixelScale>>,
                !.hi = <<arr.hi[1], arr.hi[2] * PixelScale>>]

\* np.expand_dims(arr, axis=0).
ExpandDims(arr) == [arr EXCEPT !.shape = <<1>> \o arr.shape]

\* GUI.py 317-319 on the image Image.open returned.
PreprocessGUI(image) ==
    LET img == Resize(Convert(image, "RGB"), <<TargetSide, TargetSide>>)
        arr == Normalize(AsArray(img, "float32"))
    IN  ExpandDims(arr)

\* app.py: convert("RGB") of line 243, then preprocess_image (np.array of
\* an 8-bit image divided by a float is float64).
PreprocessWEB(image) ==
    LET converted == Convert(image, "RGB")
        img       == Resize(converted, <<TargetSide, TargetSide>>)
        img_array == Normalize(AsArray(img, "float64"))
    IN  ExpandDims(img_array)

InitPre ==
    /\ shell \in Shells
    /\ pc = "running"
    /\ modelFile = << >>
    /\ model = << >>
    /\ clock = 0
    /\ InitGUI
    /\ dialog = << >>
    /\ tmp_disk = {}
    /\ files = [n \in {} |-> << >>]
    /\ page = EmptyPage
    /\ lastEvent = Event("start", "", "none", "none")
    /\ preds_in = << >>
    /\ result = << >>
    /\ image_in \in { <<i>> : i \in ValidImages }
    /\ tensor = << >>

\* The tensor handed to model.predict for image_in.
PreprocessImage ==
    /\ image_in # << >>
    /\ tensor = << >>
    /\ tensor' = << IF shell = "desktop" THEN PreprocessGUI(image_in[1])
                                         ELSE PreprocessWEB(image_in[1]) >>
    /\ lastEvent' = Event("preprocess", "", "none", "preprocessed")
    /\ UNCHANGED <<shell, pc, modelFile, model, clock, widgets, session, dialog,
                   tmp_disk, files, page, preds_in, result, image_in>>

NextPre == PreprocessImage

SpecPre == InitPre /\ [][NextPre]_vars

(***************************************************************************)
(* Properties.                                                             *)
(***************************************************************************)
\* The step just taken handled this kind of interaction and ended this way.
Did(op, outcome) == lastEvent.op = op /\ lastEvent.outcome = outcome

\* C1: in the running shell every label of CLASS_LABELS is a key of
\* WASTE_INFO and of RECYCLABILITY_SCORE, and the label set equals the key
\* set of both mappings.
C1_LabelsMatchKnowledgeBase ==
    pc = "running" =>
    LET labels == Range(CLASS_LABELS(shell))
    IN  /\ \A l \in labels : l \in DOMAIN WASTE_INFO(shell)
        /\ \A l \in labels : l \in DOMAIN RECYCLABILITY_SCORE(shell)
        /\ labels = DOMAIN WASTE_INFO(shell)
        /\ labels = DOMAIN RECYCLABILITY_SCORE(shell)

\* C2: the predicted index is an arg-max of the vector and no lower index
\* holds the same value; the label is CLASS_LABELS at that index; the
\* confidence is that entry times 100; the uniform vector gives index 0
\* with confidence 100/12, printed 8.33.
C2_ArgMaxLowestIndex ==
    result # << >> =>
        LET v   == preds_in[1]
            idx == result[1]
        IN  /\ idx \in ClassIdx
            /\ \A j \in ClassIdx : v[j] <= v[idx]
            /\ \A j \in ClassIdx : j < idx => v[j] < v[idx]
            /\ result[2] = CLASS_LABELS(shell)[idx + 1]
            /\ result[3] = 100 * v[idx]
            /\ v = Uniform =>
                   /\ idx = 0
                   /\ result[3] * NumClasses = 100 * ProbDenom
                   /\ Fmt2(result[3]) = "8.33"

\* C2 witness: a tie between indices 3 and 7 was interpreted as index 3.
C2_Witness ==
    /\ result # << >>
    /\ preds_in[1] = VecOf({3, 7}, <<6, 6>>)
    /\ result[1] = 3

\* C3: in the desktop shell a failed prediction shows an error and leaves
\* the prediction header, progress bar, details, the three fact labels, the
\* chart, the timestamp, uploaded_path and last_prediction as they were
\* before the upload.
C3_FailedPredictionKeepsState ==
    [][ (shell = "desktop" /\ lastEvent'.op = "upload"
            /\ lastEvent'.outcome = "predict_error")
        => /\ dialog'[1] = "showerror"
           /\ UNCHANGED <<pred_header, conf_bar, details_text, recyc_score_label,
                          carbon_label, landfill_label, chart, timestamp_label,
                          uploaded_path, last_prediction>> ]_vars

\* C4: when an export has ended, for whatever reason, none of the temporary
\* files made for embedding the image or the chart is left on disk.
C4_TempFilesRemoved == EmbedTemps(tmp_disk) = {}

\* The facts of a desktop prediction all read N/A.
DesktopFactsAreNA(class_name, confidence) ==
    /\ details_text = DetailsText(class_name, confidence, EmptyDict)
    /\ carbon_label = "Carbon saving (kg/kg): N/A"
    /\ landfill_label = "Landfill reduction (m\\xb3/ton): N/A"

\* C5: when the predicted label has no entry in a knowledge-base mapping,
\* the interaction ends without an error and every fact (and the score) that
\* comes from that mapping is shown, and printed in the report, as N/A.
C5_LookupMissShowsPlaceholder ==
    /\ (shell = "desktop" /\ Did("upload", "predicted")) =>
          /\ last_prediction[1] \notin DOMAIN WASTE_INFO("desktop") =>
                 DesktopFactsAreNA(last_prediction[1], last_prediction[2])
          /\ last_prediction[1] \notin DOMAIN RECYCLABILITY_SCORE("desktop") =>
                 recyc_score_label = "Recyclability Score: N/A/100"
    /\ (shell = "desktop" /\ Did("download", "saved")) =>
          LET doc == files[lastEvent.arg][1]
          IN  /\ last_prediction[1] \notin DOMAIN WASTE_INFO("desktop") =>
                     /\ doc.lines[1] = "Description: N/A"
                     /\ doc.lines[2] = "How to Recycle: N/A"
                     /\ doc.lines[3] = "Hazard: N/A"
                     /\ doc.lines[4] = "Estimated Decomposition Time: N/A"
                     /\ doc.lines[5] = "Eco Tip: N/A"
                     /\ doc.lines[7] = "Carbon saving (kg/kg): N/A"
                     /\ doc.lines[8] = "Landfill reduction (m\\xb3/ton): N/A"
              /\ last_prediction[1] \notin DOMAIN RECYCLABILITY_SCORE("desktop") =>
                     doc.lines[6] = "Recyclability Score: N/A/100"
    /\ (shell = "web" /\ Did("render", "rendered") /\ lastEvent.arg \in ValidPaths) =>
          LET name == ClassName("web", ArgMax(page.plot[1]))
              doc  == files[page.download[1]][1]
          IN  name \notin DOMAIN WASTE_INFO("web") =>
                  /\ page.facts = <<"N/A", "N/A", "N/A", "N/A", "N/A">>
                  /\ doc.lines[1] = "Description: N/A"
                  /\ doc.lines[2] = "Recycle: N/A"
                  /\ doc.lines[3] = "Hazard: N/A"
                  /\ doc.lines[4] = "Decomposition Time: N/A"
                  /\ doc.lines[5] = "Eco Tip: N/A"
                  /\ doc.lines[7] = "Carbon saving: N/A"
                  /\ doc.lines[8] = "Landfill reduction: N/A"

\* The stub classifier that always returns [1,0,0,0,0,0,0,0,0,0,0,0].
BatteryStub == ConstantStub(OneHot(0))

\* The hazard text of "battery" in the desktop table.
BatteryHazardGUI == "High \\u2014 toxic if leaked into soil/water."

\* The hazard text of "battery" in the web table.
BatteryHazardWEB == "\\u26a0\\ufe0f High (toxic chemicals)"

\* What the desktop shell shows and holds after a battery prediction at
\* 100.00%, with the given hazard text in the details.
DesktopShowsBattery(hazard) ==
    /\ last_prediction[1] = "battery"
    /\ pred_header = "\\U0001f50e Predicted: BATTERY (100.00%)"
    /\ details_text =
           DetailsText("battery", 100 * ProbDenom,
                       [WASTE_INFO_GUI["battery"] EXCEPT !.hazard = hazard])
    /\ recyc_score_label = "Recyclability Score: 10/100"

\* What the web page shows after a battery prediction at 100.00%, with the
\* given hazard text among the facts.
WebShowsBattery(hazard) ==
    /\ page.header = "\\U0001f50e Predicted: **BATTERY** (100.00%)"
    /\ page.facts[3] = hazard
    /\ page.recyc_chart = <<10>>

\* C6 as stated: with the stub that always returns [1,0,...,0], an upload of
\* a valid image gives "battery", 100.00%, the hazard text "High (em dash)
\* toxic if leaked into soil/water." and the score 10/100, in either shell.
C6_BatteryScenarioEitherShell ==
    model = <<BatteryStub>> =>
        /\ (shell = "desktop" /\ Did("upload", "predicted")) =>
               DesktopShowsBattery(BatteryHazardGUI)
        /\ (shell = "web" /\ lastEvent.op = "render" /\ lastEvent.arg \in ValidPaths
               /\ lastEvent.fault \notin {"open", "predict"}) =>
               WebShowsBattery(BatteryHazardGUI)

\* C6 amended: the same, except that the hazard text is the one of the
\* running shell's own table: the stated text in the desktop shell, and
\* "(warning sign) High (toxic chemicals)" in the web shell.
C6_BatteryScenarioPerShell ==
    model = <<BatteryStub>> =>
        /\ (shell = "desktop" /\ Did("upload", "predicted")) =>
               DesktopShowsBattery(BatteryHazardGUI)
        /\ (shell = "web" /\ lastEvent.op = "render" /\ lastEvent.arg \in ValidPaths
               /\ lastEvent.fault \notin {"open", "predict"}) =>
               WebShowsBattery(BatteryHazardWEB)

\* C6 witness: the web shell rendered the results of a valid upload under
\* the battery stub.
C6_Witness ==
    /\ shell = "web"
    /\ model = <<BatteryStub>>
    /\ Did("render", "rendered")
    /\ lastEvent.arg \in ValidPaths
    /\ page.facts[3] = BatteryHazardWEB

\* C7: when writing the PDF fails during an export, the shell tells the
\* user: the desktop shell opens an error box in that step and the web
\* shell puts an error on the page; neither reports the file as saved.
C7_ExportErrorReported ==
    [][ (lastEvent'.op \in {"download", "render"} /\ lastEvent'.fault = "save")
        => /\ shell = "desktop" =>
                  /\ dialog' # dialog
                  /\ dialog'[1] = "showerror"
           /\ shell = "web" =>
                  /\ page'.error # << >>
                  /\ page'.download = << >> ]_vars

\* C8: in the desktop shell, once running the process keeps running whatever
\* fails, and whatever failed before: an upload of a readable image in which
\* nothing raises stores the prediction of that image, and an export of the
\* stored prediction to a writable path writes the report unless a step of
\* that export itself fails (the export ran through, or stopped only at
\* opening the file uploaded_path names).
C8_FailuresAreNotFatal ==
    [][ (shell = "desktop" /\ pc = "running")
        => /\ pc' = "running"
           /\ (lastEvent'.op = "upload" /\ lastEvent'.arg \in ValidPaths
                  /\ lastEvent'.fault = "none")
              => /\ lastEvent'.outcome = "predicted"
                 /\ last_prediction' # << >>
                 /\ last_prediction'[3] = model[1][lastEvent'.arg]
           /\ (lastEvent'.op = "download" /\ Writable(lastEvent'.arg)
                  /\ last_prediction # << >>
                  /\ lastEvent'.fault \in {"none", "open"})
              => /\ lastEvent'.outcome = "saved"
                 /\ lastEvent'.arg \in DOMAIN files'
                 /\ files'[lastEvent'.arg] # << >> ]_vars

\* C9: the classifier is loaded only at process start and never reassigned
\* afterwards; when the model file cannot be loaded the shell never runs:
\* no classifier, no window state beyond the initial one, no file, and no
\* page but the one on which the web shell shows the exception of the load.
C9_ModelLoadedOnce ==
    [][ /\ model # << >> => model' = model
        /\ model' # model => (pc = "start" /\ lastEvent'.op = "load")
        /\ modelFile = << >> =>
               /\ pc' # "running"
               /\ model' = << >>
        /\ pc' = "aborted" =>
               /\ lastEvent'.op = "load"
               /\ InitGUI'
               /\ page' = [EmptyPage EXCEPT !.error = page'.error]
               /\ (shell = "desktop" => page' = EmptyPage)
               /\ tmp_disk' = {}
               /\ DOMAIN files' = {} ]_vars

\* C9 witness: a shell whose model was loaded has predicted and exported,
\* and holds the model it loaded.
C9_Witness ==
    /\ pc = "running"
    /\ model = modelFile
    /\ last_prediction # << >>
    /\ Did("download", "saved")

\* C10: in the desktop shell a successful prediction stores the class name,
\* confidence and vector of the image just uploaded in last_prediction,
\* nothing else changes last_prediction, and a saved report prints the
\* stored prediction and the chart of its vector.
C10_LastPredictionIsMostRecent ==
    [][ shell = "desktop" =>
        /\ (lastEvent'.op = "upload" /\ lastEvent'.outcome = "predicted") =>
               LET v   == model[1][lastEvent'.arg]
                   idx == ArgMax(v)
               IN  last_prediction' =
                       <<CLASS_LABELS_GUI[idx + 1], 100 * v[idx], v>>
        /\ ~(lastEvent'.op = "upload" /\ lastEvent'.outcome = "predicted") =>
               last_prediction' = last_prediction
        /\ (lastEvent'.op = "download" /\ lastEvent'.outcome = "saved") =>
               LET doc == files'[lastEvent'.arg][1]
               IN  /\ doc.prediction =
                          "Predicted Class: " \o UPPER_GUI[last_prediction[1]] \o
                          " (" \o Fmt2(last_prediction[2]) \o "%)"
                   /\ doc.chart = <<last_prediction[3]>> ]_vars

\* C10 witness: a report was saved for b.png, predicted at the second
\* interaction, whose class differs from that of a.jpg.
C10_Witness ==
    /\ shell = "desktop"
    /\ Did("download", "saved")
    /\ uploaded_path = "b.png"
    /\ timestamp_label = "Last analyzed: " \o Strftime(1)
    /\ model[1]["a.jpg"] # model[1]["b.png"]
    /\ files[lastEvent.arg][1].chart = <<model[1]["b.png"]>>

\* C11: in the web shell, a render pass in which opening the image or
\* model.predict raised shows the error and no results section: no
\* prediction header, progress bar, confidence chart, fact text,
\* recyclability chart or download button, and no PDF is generated (no
\* file is created or written).
C11_WebFailureRendersNoResults ==
    [][ (shell = "web" /\ lastEvent'.op = "render"
            /\ lastEvent'.fault \in {"open", "predict"})
        => /\ page'.error # << >>
           /\ page'.header = ""
           /\ page'.progress = << >>
           /\ page'.plot = << >>
           /\ page'.facts = << >>
           /\ page'.recyc_chart = << >>
           /\ page'.wedges = << >>
           /\ page'.download = << >>
           /\ tmp_disk' = tmp_disk
           /\ files' = files ]_vars

\* C11 witness: after a pass that rendered results and generated a PDF, a
\* pass failed in model.predict and its page holds the image and the error
\* only.
C11_Witness ==
    /\ shell = "web"
    /\ DOMAIN files # {}
    /\ lastEvent.op = "render"
    /\ lastEvent.fault = "predict"
    /\ page.image \in ValidPaths
    /\ page.header = ""
    /\ page.download = << >>

\* C12: for every valid image, whatever its mode, resolution and aspect
\* ratio, the tensor passed to the classifier has shape (1, 224, 224, 3) and
\* every entry is an 8-bit value v divided by 255, so it lies in [0, 1].
C12_TensorShapeAndRange ==
    tensor # << >> =>
        LET t == tensor[1]
        IN  /\ t.shape = <<1, 224, 224, 3>>
            /\ t.lo[2] = 255 /\ t.hi[2] = 255
            /\ t.lo[1] \in 0 .. 255 /\ t.hi[1] \in 0 .. 255
            /\ 0 <= t.lo[1] /\ t.lo[1] <= t.hi[1] /\ t.hi[1] <= t.hi[2]
            /\ (image_in[1].lo = image_in[1].hi
                    => t.lo = <<image_in[1].lo, 255>> /\ t.hi = t.lo)

\* C12 witness: a one-pixel-wide RGBA image with values over the whole 8-bit
\* range was brought to the classifier's shape with entries from 0 to 1.
C12_Witness ==
    /\ tensor # << >>
    /\ image_in[1].mode = "RGBA"
    /\ image_in[1].size = <<1, 3>>
    /\ image_in[1].lo = 0 /\ image_in[1].hi = 255
    /\ tensor[1].shape = <<1, 224, 224, 3>>
    /\ tensor[1].lo = <<0, 255>>
    /\ tensor[1].hi = <<255, 255>>

\* The recyclability line of a report prints an integer score in 0..100.
ReportScoreIsPercent(doc) ==
    \E s \in 0 .. 100 :
        doc.lines[6] = "Recyclability Score: " \o ToString(s) \o "/100"

\* The score the desktop shell shows, once it shows one, is in 0..100.
DesktopScoreIsPercent ==
    (shell = "desktop" /\ recyc_score_label # "Recyclability Score: N/A")
        => \E s \in 0 .. 100 :
               recyc_score_label =
                   "Recyclability Score: " \o ToString(s) \o "/100"

\* The score the web shell charts is in 0..100 and the donut's two wedges
\* are that score and the rest of 100, neither negative.
WebDonutIsPercent ==
    (shell = "web" /\ page.recyc_chart # << >>)
        => /\ page.recyc_chart[1] \in 0 .. 100
           /\ page.wedges[1] = page.recyc_chart[1]
           /\ page.wedges[1] >= 0 /\ page.wedges[2] >= 0
           /\ page.wedges[1] + page.wedges[2] = 100

\* C13 as stated: every recyclability score a shell uses (on screen, in the
\* donut and in the report line) is an integer in 0..100, also when the
\* predicted label has no score entry, and the donut's wedges are
\* non-negative and sum to 100.
C13_EveryScoreUsedIsPercent ==
    /\ DesktopScoreIsPercent
    /\ WebDonutIsPercent
    /\ \A n \in DOMAIN files :
           files[n] # << >> => ReportScoreIsPercent(files[n][1])

\* The labels of the eight fact lines of a shell's report, in order.
FactLabels(sh) ==
    IF sh = "desktop"
    THEN << "Description: ", "How to Recycle: ", "Hazard: ",
            "Estimated Decomposition Time: ", "Eco Tip: ",
            "Recyclability Score: ", "Carbon saving (kg/kg): ",
            "Landfill reduction (m\\xb3/ton): " >>
    ELSE << "Description: ", "Recycle: ", "Hazard: ", "Decomposition Time: ",
            "Eco Tip: ", "Recyclability Score: ", "Carbon saving: ",
            "Landfill reduction: " >>

\* Every text a fact line can carry after its label.
FactValues(sh) ==
    {"N/A", "N/A/100"}
        \cup { WASTE_INFO(sh)[k][f] :
                   k \in DOMAIN WASTE_INFO(sh),
                   f \in {"description", "recycle", "hazard", "time", "tip"} }
        \cup UNION { { WASTE_INFO(sh)[k][f] :
                         f \in DOMAIN WASTE_INFO(sh)[k]
                                 \ {"description", "recycle", "hazard",
                                    "time", "tip"} } :
                     k \in DOMAIN WASTE_INFO(sh) }
        \cup { ToString(n) \o "/100" : n \in 0 .. 100 }

\* One page whose strings are, from the top down and in drawing order, the
\* title, the generation time, the model identifier, the prediction line
\* and eight labeled fact lines.
ReportLayout(sh, doc) ==
    /\ doc.pages = 1
    /\ Len(doc.strings) = 12
    /\ \A i \in 1 .. 11 : doc.strings[i].down < doc.strings[i + 1].down
    /\ doc.strings[1].text = "EcoSortAI - Waste Classification Report"
    /\ \E t \in 0 .. clock : doc.strings[2].text = "Generated: " \o Strftime(t)
    /\ doc.strings[3].text = "Model: ecosortai_final_model.h5"
    /\ \E idx \in ClassIdx, p \in 0 .. ProbDenom :
           doc.strings[4].text =
               "Predicted Class: " \o Upper(sh, ClassName(sh, idx)) \o " (" \o
               Fmt2(100 * p) \o "%)"
    /\ \A i \in 1 .. 8 :
           \E v \in FactValues(sh) :
               doc.strings[4 + i].text = FactLabels(sh)[i] \o v

\* C14: every successful export writes one page holding, in this order, the
\* fixed title, two metadata lines (generation time, model identifier), one
\* prediction line and exactly eight labeled fact lines; the desktop shell
\* writes it to the path the save dialog returned, the web shell to a
\* temporary .pdf file whose name it hands to the download button.
C14_ExportLayoutAndDestination ==
    /\ (shell = "desktop" /\ Did("download", "saved"))
           => /\ lastEvent.arg \in DOMAIN files
              /\ Len(files[lastEvent.arg]) = 1
              /\ ReportLayout("desktop", files[lastEvent.arg][1])
    /\ (shell = "web" /\ page.download # << >>)
           => /\ page.download[1] \in tmp_disk
              /\ \E n \in 1 .. Cardinality(tmp_disk) : page.download[1] = TmpName(n, ".pdf")
              /\ page.download[1] \in DOMAIN files
              /\ Len(files[page.download[1]]) = 1
              /\ ReportLayout("web", files[page.download[1]][1])

\* C14 witness: the desktop shell saved a report with its twelve strings and
\* the uploaded image to the chosen path.
C14_Witness ==
    /\ shell = "desktop"
    /\ Did("download", "saved")
    /\ lastEvent.arg = "report.pdf"
    /\ Len(files["report.pdf"][1].strings) = 12
    /\ files["report.pdf"][1].strings[12].down = 240
    /\ files["report.pdf"][1].image # << >>

\* The image a desktop report embeds is the one whose prediction it prints.
ReportImageMatchesPrediction ==
    \A n \in DOMAIN files :
        files[n] # << >> =>
            LET doc == files[n][1]
            IN  /\ doc.image # << >>
                /\ doc.image[1] \in ValidPaths
                /\ doc.chart = <<model[1][doc.image[1]]>>
                /\ doc.prediction =
                       "Predicted Class: " \o
                       Upper("desktop",
                             ClassName("desktop", ArgMax(model[1][doc.image[1]])))
                       \o " (" \o
                       Fmt2(Confidence(model[1][doc.image[1]],
                                       ArgMax(model[1][doc.image[1]]))) \o "%)"

\* C15: in the desktop shell, whenever last_prediction is set, uploaded_path
\* is the path of the image that produced it, so the image embedded in an
\* exported report is the one its class name and confidence were predicted
\* from.
C15_UploadedPathProducedPrediction ==
    (shell = "desktop" /\ pc = "running") =>
        /\ last_prediction # << >> =>
               /\ uploaded_path \in ValidPaths
               /\ last_prediction[3] = model[1][uploaded_path]
        /\ ReportImageMatchesPrediction

\* C16: in the desktop shell, a download requested while no prediction has
\* succeeded shows the "No prediction" warning and does nothing else: the
\* save dialog is not asked (its answer plays no part), no temporary file
\* is created, no file is written, and uploaded_path, last_prediction and
\* the widgets stay as they were.
C16_DownloadWithoutPredictionOnlyWarns ==
    [][ (shell = "desktop" /\ lastEvent'.op = "download"
            /\ last_prediction = << >>)
        => /\ lastEvent' = Event("download", "", "none", "warning")
           /\ dialog' = MessageBox("showwarning", "No prediction",
                                   "Please upload and analyze an image first.")
           /\ tmp_disk' = tmp_disk
           /\ files' = files
           /\ uploaded_path' = uploaded_path
           /\ last_prediction' = last_prediction
           /\ widgets' = widgets
           /\ pc' = pc ]_vars

\* C16 witness: every upload so far failed, and the download that followed
\* replaced the error box by the warning.
C16_Witness ==
    /\ shell = "desktop"
    /\ Did("download", "warning")
    /\ uploaded_path \in Paths
    /\ last_prediction = << >>
    /\ dialog # << >> /\ dialog[1] = "showwarning"
    /\ tmp_disk = {}
    /\ DOMAIN files = {}

\* C17: in the desktop shell, an upload whose file dialog was cancelled and
\* a download whose save dialog was cancelled leave uploaded_path,
\* last_prediction and every widget as they were, create no temporary file
\* and write no file.
C17_CancelledDialogChangesNothing ==
    [][ (/\ shell = "desktop"
         /\ lastEvent'.arg = Cancel
         /\ \/ lastEvent'.op = "upload"
            \/ lastEvent'.op = "download" /\ last_prediction # << >>)
        => /\ lastEvent'.outcome = "cancel"
           /\ uploaded_path' = uploaded_path
           /\ last_prediction' = last_prediction
           /\ widgets' = widgets
           /\ tmp_disk' = tmp_disk
           /\ files' = files ]_vars

\* C17 witness: with a prediction on screen, the file dialog of a further
\* upload was cancelled and the prediction is still displayed and stored.
C17_Witness ==
    /\ shell = "desktop"
    /\ Did("upload", "cancel")
    /\ uploaded_path \in ValidPaths
    /\ last_prediction # << >>
    /\ preview_label.image = uploaded_path
    /\ chart = <<last_prediction[3]>>
    /\ tmp_disk = {}

\* The desktop widgets show the prediction that last_prediction holds.
ScreenShowsLastPrediction ==
    /\ last_prediction # << >>
    /\ pred_header = "\\U0001f50e Predicted: " \o
                     Upper("desktop", last_prediction[1]) \o " (" \o
                     Fmt2(last_prediction[2]) \o "%)"
    /\ chart = <<last_prediction[3]>>

\* C18: within one shell, the recyclability score shown on screen for a
\* prediction equals the one printed in the report exported for that same
\* prediction, for every label of CLASS_LABELS, one without a score entry
\* included.
C18_ScreenScoreEqualsReportScore ==
    /\ (shell = "desktop" /\ Did("download", "saved")
            /\ ScreenShowsLastPrediction)
           => files[lastEvent.arg][1].lines[6] = recyc_score_label
    /\ (shell = "web" /\ page.download # << >>)
           => files[page.download[1]][1].lines[6] =
                  "Recyclability Score: " \o ToString(page.recyc_chart[1])
                  \o "/100"

====
